---- MODULE Spec2Model ----
(***************************************************************************)
(* Sandboxing subsystem of goose: the policy model and resolver            *)
(* (crates/goose-mcp/src/developer/sandbox.rs), the per-command wrapper    *)
(* (same file) and the self-reexec process launcher                        *)
(* (crates/goose-cli/src/sandbox.rs).                                      *)
(*                                                                         *)
(* A Rust String is a sequence of one-character strings, so that           *)
(* to_lowercase, replace, starts_with and format! are computed and not     *)
(* assumed.  An Option<T> is a set with at most one element: None is {}    *)
(* and Some(x) is {x}.  A Result is a record [ok, val].                    *)
(***************************************************************************)
EXTENDS Naturals, Sequences, FiniteSets, TLC

(***************************************************************************)
(* String literals of the source and of the inputs drawn by the model.     *)
(***************************************************************************)
S_empty == <<>>
S_none == <<"n", "o", "n", "e">>
S_false == <<"f", "a", "l", "s", "e">>
S_disabled == <<"d", "i", "s", "a", "b", "l", "e", "d">>
S_seatbelt == <<"s", "e", "a", "t", "b", "e", "l", "t">>
S_sandbox_exec == <<"s", "a", "n", "d", "b", "o", "x", "-", "e", "x", "e", "c">>
S_docker == <<"d", "o", "c", "k", "e", "r">>
S_podman == <<"p", "o", "d", "m", "a", "n">>
S_true == <<"t", "r", "u", "e">>
S_1 == <<"1">>
S_TRUE == <<"T", "R", "U", "E">>
S_True == <<"T", "r", "u", "e">>
S_SeatBelt == <<"S", "e", "a", "t", "B", "e", "l", "t">>
S_Docker == <<"D", "o", "c", "k", "e", "r">>
S_bogus == <<"b", "o", "g", "u", "s">>
S_permissive_open == <<"p", "e", "r", "m", "i", "s", "s", "i", "v", "e", "-", "o", "p", "e", "n">>
S_permissive_closed == <<"p", "e", "r", "m", "i", "s", "s", "i", "v", "e", "-", "c", "l", "o", "s", "e", "d">>
S_restrictive_open == <<"r", "e", "s", "t", "r", "i", "c", "t", "i", "v", "e", "-", "o", "p", "e", "n">>
S_permissive_open_u == <<"p", "e", "r", "m", "i", "s", "s", "i", "v", "e", "_", "o", "p", "e", "n">>
S_permissive_closed_u == <<"p", "e", "r", "m", "i", "s", "s", "i", "v", "e", "_", "c", "l", "o", "s", "e", "d">>
S_restrictive_open_u == <<"r", "e", "s", "t", "r", "i", "c", "t", "i", "v", "e", "_", "o", "p", "e", "n">>
S_restrictive_closed_u == <<"r", "e", "s", "t", "r", "i", "c", "t", "i", "v", "e", "_", "c", "l", "o", "s", "e", "d">>
S_permissiveopen == <<"p", "e", "r", "m", "i", "s", "s", "i", "v", "e", "o", "p", "e", "n">>
S_permissiveclosed == <<"p", "e", "r", "m", "i", "s", "s", "i", "v", "e", "c", "l", "o", "s", "e", "d">>
S_restrictiveopen == <<"r", "e", "s", "t", "r", "i", "c", "t", "i", "v", "e", "o", "p", "e", "n">>
S_restrictiveclosed == <<"r", "e", "s", "t", "r", "i", "c", "t", "i", "v", "e", "c", "l", "o", "s", "e", "d">>
S_Restrictive_Closed == <<"R", "e", "s", "t", "r", "i", "c", "t", "i", "v", "e", "-", "C", "l", "o", "s", "e", "d">>
S_PERMISSIVE_CLOSED == <<"P", "E", "R", "M", "I", "S", "S", "I", "V", "E", "_", "C", "L", "O", "S", "E", "D">>
S_RestrictiveOpen == <<"R", "e", "s", "t", "r", "i", "c", "t", "i", "v", "e", "O", "p", "e", "n">>
S_invalid == <<"i", "n", "v", "a", "l", "i", "d">>
S_permissive_open_sb == <<"p", "e", "r", "m", "i", "s", "s", "i", "v", "e", "-", "o", "p", "e", "n", ".", "s", "b">>
S_permissive_closed_sb == <<"p", "e", "r", "m", "i", "s", "s", "i", "v", "e", "-", "c", "l", "o", "s", "e", "d", ".", "s", "b">>
S_restrictive_open_sb == <<"r", "e", "s", "t", "r", "i", "c", "t", "i", "v", "e", "-", "o", "p", "e", "n", ".", "s", "b">>
S_restrictive_closed_sb == <<"r", "e", "s", "t", "r", "i", "c", "t", "i", "v", "e", "-", "c", "l", "o", "s", "e", "d", ".", "s", "b">>
S_slash == <<"/">>
S_work == <<"w", "o", "r", "k">>
S_other == <<"o", "t", "h", "e", "r">>
S_home == <<"h", "o", "m", "e">>
S_u == <<"u">>
S_crates == <<"c", "r", "a", "t", "e", "s">>
S_goose_mcp == <<"g", "o", "o", "s", "e", "-", "m", "c", "p">>
S_src == <<"s", "r", "c">>
S_developer == <<"d", "e", "v", "e", "l", "o", "p", "e", "r">>
S_profiles == <<"p", "r", "o", "f", "i", "l", "e", "s">>
S_dash_f == <<"-", "f">>
S_dash_D == <<"-", "D">>
S_dash_p == <<"-", "p">>
S_dash_n == <<"-", "n">>
S_project_dir_eq == <<"p", "r", "o", "j", "e", "c", "t", "_", "d", "i", "r", "=">>
S_home_dir_eq == <<"h", "o", "m", "e", "_", "d", "i", "r", "=">>
S_bash == <<"b", "a", "s", "h">>
S_dash_c == <<"-", "c">>
S_cmd == <<"c", "m", "d">>
S_slash_C == <<"/", "C">>
S_ls == <<"l", "s">>
S_echo_hi == <<"e", "c", "h", "o", " ", "h", "i">>
S_dash_s == <<"-", "s">>
S_dd_sandbox == <<"-", "-", "s", "a", "n", "d", "b", "o", "x">>
S_dd_sandbox_eq_seatbelt == <<"-", "-", "s", "a", "n", "d", "b", "o", "x", "=", "s", "e", "a", "t", "b", "e", "l", "t">>
S_dd_debug == <<"-", "-", "d", "e", "b", "u", "g">>
S_session == <<"s", "e", "s", "s", "i", "o", "n">>
S_goose == <<"g", "o", "o", "s", "e">>
S_usr == <<"u", "s", "r">>
S_bin == <<"b", "i", "n">>
S_home_u == <<"/", "h", "o", "m", "e", "/", "u">>
S_state_suffix == <<"/", ".", "l", "o", "c", "a", "l", "/", "s", "t", "a", "t", "e", "/", "g", "o", "o", "s", "e">>
S_share_suffix == <<"/", ".", "l", "o", "c", "a", "l", "/", "s", "h", "a", "r", "e", "/", "g", "o", "o", "s", "e">>
S_open_head == <<"(", "v", "e", "r", "s", "i", "o", "n", " ", "1", ")", "\n", "(", "a", "l", "l", "o", "w", " ", "d", "e", "f", "a", "u", "l", "t", ")", "\n", "(", "d", "e", "n", "y", " ", "f", "i", "l", "e", "-", "w", "r", "i", "t", "e", "*", ")", "\n">>
S_closed_head == <<"(", "v", "e", "r", "s", "i", "o", "n", " ", "1", ")", "\n", "(", "a", "l", "l", "o", "w", " ", "d", "e", "f", "a", "u", "l", "t", " ", "(", "n", "e", "t", "w", "o", "r", "k", "*", ")", ")", "\n", "(", "d", "e", "n", "y", " ", "d", "e", "f", "a", "u", "l", "t", " ", "(", "w", "i", "t", "h", " ", "m", "e", "s", "s", "a", "g", "e", " ", "\"", "d", "e", "n", "i", "e", "d", "\"", ")", ")", "\n", "(", "a", "l", "l", "o", "w", " ", "f", "i", "l", "e", "-", "r", "e", "a", "d", "*", ")", "\n">>
S_allow_write_open == <<"(", "a", "l", "l", "o", "w", " ", "f", "i", "l", "e", "-", "w", "r", "i", "t", "e", "*", " ", "(", "s", "u", "b", "p", "a", "t", "h", " ", "\"">>
S_allow_write_close == <<"\"", ")", ")", "\n">>
S_closed_tail == <<"(", "a", "l", "l", "o", "w", " ", "p", "r", "o", "c", "e", "s", "s", "*", ")", "\n">>
S_home_quoted == <<"/", "h", "\"", ")", ")", "\n", "(", "a", "l", "l", "o", "w", " ", "f", "i", "l", "e", "-", "w", "r", "i", "t", "e", "*", " ", "(", "s", "u", "b", "p", "a", "t", "h", " ", "\"", "/">>
S_deny_write == <<"(", "d", "e", "n", "y", " ", "f", "i", "l", "e", "-", "w", "r", "i", "t", "e", "*", ")">>
S_allow_write == <<"(", "a", "l", "l", "o", "w", " ", "f", "i", "l", "e", "-", "w", "r", "i", "t", "e", "*">>
S_subpath_close == <<"\"", ")", ")">>
S_dd_sandbox_eq == <<"-", "-", "s", "a", "n", "d", "b", "o", "x", "=">>
S_dash_s_eq == <<"-", "s", "=">>

(***************************************************************************)
(* str::to_lowercase and str::replace over the ASCII letters.              *)
(***************************************************************************)
UpperChars == <<"A", "B", "C", "D", "E", "F", "G", "H", "I", "J", "K", "L", "M", "N", "O", "P", "Q", "R", "S", "T", "U", "V", "W", "X", "Y", "Z">>
LowerChars == <<"a", "b", "c", "d", "e", "f", "g", "h", "i", "j", "k", "l", "m", "n", "o", "p", "q", "r", "s", "t", "u", "v", "w", "x", "y", "z">>

LowerOf ==
    [c \in {UpperChars[i] : i \in DOMAIN UpperChars} |->
        LowerChars[CHOOSE i \in DOMAIN UpperChars : UpperChars[i] = c]]

to_lowercase_char(c) == IF c \in DOMAIN LowerOf THEN LowerOf[c] ELSE c

to_lowercase(s) == [i \in 1..Len(s) |-> to_lowercase_char(s[i])]

replace(s, from, to) == [i \in 1..Len(s) |-> IF s[i] = from THEN to ELSE s[i]]

(***************************************************************************)
(* Option and Result.                                                      *)
(***************************************************************************)
None == {}
Some(x) == {x}
unwrap(o) == CHOOSE x \in o : TRUE
Ok(v) == [ok |-> TRUE, val |-> v]
Err(e) == [ok |-> FALSE, val |-> e]

(***************************************************************************)
(* The process environment.  A variable is unset, set to a Unicode string, *)
(* or set to bytes that are not valid Unicode; std::env::var is Ok only in *)
(* the second case.                                                        *)
(***************************************************************************)
EnvUnset == [state |-> "unset", val |-> <<>>]
EnvStr(s) == [state |-> "unicode", val |-> s]
EnvNotUnicode == [state |-> "not_unicode", val |-> <<>>]

env_var(e, name) ==
    IF e[name].state = "unicode" THEN Ok(e[name].val) ELSE Err(e[name].state)

(***************************************************************************)
(* Policy model.                                                           *)
(***************************************************************************)
SandboxMethod == {"None", "Seatbelt", "Docker", "Podman"}
SeatbeltProfile == {"PermissiveOpen", "PermissiveClosed", "RestrictiveOpen", "RestrictiveClosed"}
SandboxConfig == [enabled : BOOLEAN, method : SandboxMethod, profile : SeatbeltProfile]
Platforms == {"macos", "linux"}

SandboxConfig_default ==
    [enabled |-> FALSE, method |-> "None", profile |-> "PermissiveOpen"]

SandboxMethod_from_str(s) ==
    LET l == to_lowercase(s) IN
    IF l \in {S_none, S_false, S_disabled} THEN Ok("None")
    ELSE IF l \in {S_seatbelt, S_sandbox_exec} THEN Ok("Seatbelt")
    ELSE IF l = S_docker THEN Ok("Docker")
    ELSE IF l = S_podman THEN Ok("Podman")
    ELSE Err("Unknown sandbox method")

SeatbeltProfile_from_str(s) ==
    LET l == replace(to_lowercase(s), "-", "_") IN
    IF l \in {S_permissive_open_u, S_permissiveopen} THEN Ok("PermissiveOpen")
    ELSE IF l \in {S_permissive_closed_u, S_permissiveclosed} THEN Ok("PermissiveClosed")
    ELSE IF l \in {S_restrictive_open_u, S_restrictiveopen} THEN Ok("RestrictiveOpen")
    ELSE IF l \in {S_restrictive_closed_u, S_restrictiveclosed} THEN Ok("RestrictiveClosed")
    ELSE Err("Unknown seatbelt profile")

profile_filename(p) ==
    CASE p = "PermissiveOpen" -> S_permissive_open_sb
      [] p = "PermissiveClosed" -> S_permissive_closed_sb
      [] p = "RestrictiveOpen" -> S_restrictive_open_sb
      [] p = "RestrictiveClosed" -> S_restrictive_closed_sb

(***************************************************************************)
(* Policy resolver: parse_sandbox_config, one operator per step.           *)
(***************************************************************************)
\* faulty variant: "true" picks Seatbelt on every platform
ApplyEnvSandbox_AnyPlatform(config, e, plat) ==
    LET v == env_var(e, "GOOSE_SANDBOX") IN
    IF ~v.ok THEN config
    ELSE LET m == SandboxMethod_from_str(v.val) IN
         IF m.ok THEN [config EXCEPT !.enabled = (m.val # "None"), !.method = m.val]
         ELSE IF to_lowercase(v.val) = S_true
              THEN [config EXCEPT !.enabled = TRUE, !.method = "Seatbelt"]
              ELSE config

\* GOOSE_SANDBOX (lines 261-277)
ApplyEnvSandbox(config, e, plat) ==
    LET v == env_var(e, "GOOSE_SANDBOX") IN
    IF ~v.ok THEN config
    ELSE LET m == SandboxMethod_from_str(v.val) IN
         IF m.ok THEN [config EXCEPT !.enabled = (m.val # "None"), !.method = m.val]
         ELSE IF to_lowercase(v.val) = S_true
              THEN IF plat = "macos"
                   THEN [config EXCEPT !.enabled = TRUE, !.method = "Seatbelt"]
                   ELSE [config EXCEPT !.method = "None", !.enabled = FALSE]
              ELSE config

\* SEATBELT_PROFILE (lines 280-284)
ApplyEnvProfile(config, e) ==
    LET v == env_var(e, "SEATBELT_PROFILE") IN
    IF ~v.ok THEN config
    ELSE LET p == SeatbeltProfile_from_str(v.val) IN
         IF p.ok THEN [config EXCEPT !.profile = p.val] ELSE config

\* faulty variant: the bare flag enables sandboxing before the platform is looked at
ApplyCliSandbox_EnabledFirst(config, sandbox_arg, plat) ==
    IF sandbox_arg = None THEN config
    ELSE LET sandbox_opt == unwrap(sandbox_arg) IN
         IF sandbox_opt # None
         THEN LET m == SandboxMethod_from_str(unwrap(sandbox_opt)) IN
              IF m.ok THEN [config EXCEPT !.enabled = (m.val # "None"), !.method = m.val]
              ELSE config
         ELSE IF plat = "macos"
              THEN [config EXCEPT !.enabled = TRUE, !.method = "Seatbelt"]
              ELSE [config EXCEPT !.enabled = TRUE, !.method = "None"]

\* the CLI sandbox value, an Option<Option<String>> (lines 287-308)
ApplyCliSandbox(config, sandbox_arg, plat) ==
    IF sandbox_arg = None THEN config
    ELSE LET sandbox_opt == unwrap(sandbox_arg) IN
         IF sandbox_opt # None
         THEN LET m == SandboxMethod_from_str(unwrap(sandbox_opt)) IN
              IF m.ok THEN [config EXCEPT !.enabled = (m.val # "None"), !.method = m.val]
              ELSE config
         ELSE IF plat = "macos"
              THEN [config EXCEPT !.enabled = TRUE, !.method = "Seatbelt"]
              ELSE [config EXCEPT !.enabled = FALSE, !.method = "None"]

\* the CLI profile value (lines 311-315)
ApplyCliProfile(config, profile_arg) ==
    IF profile_arg = None THEN config
    ELSE LET p == SeatbeltProfile_from_str(unwrap(profile_arg)) IN
         IF p.ok THEN [config EXCEPT !.profile = p.val] ELSE config

\* faulty variant: the environment is applied after the CLI values
parse_sandbox_config_EnvLast(e, plat, sandbox_arg, profile_arg) ==
    ApplyEnvProfile(
        ApplyEnvSandbox(
            ApplyCliProfile(
                ApplyCliSandbox(SandboxConfig_default, sandbox_arg, plat), profile_arg),
            e, plat),
        e)

parse_sandbox_config(e, plat, sandbox_arg, profile_arg) ==
    ApplyCliProfile(
        ApplyCliSandbox(
            ApplyEnvProfile(ApplyEnvSandbox(SandboxConfig_default, e, plat), e),
            sandbox_arg, plat),
        profile_arg)

(***************************************************************************)
(* Paths and commands.  A PathBuf is its sequence of components (absolute, *)
(* below the root); display() renders it with "/" separators.  A Command   *)
(* is the program and the arguments given to it, in order.                 *)
(***************************************************************************)
RECURSIVE display(_)
display(path) ==
    IF path = <<>> THEN <<>> ELSE S_slash \o Head(path) \o display(Tail(path))

push(path, component) == Append(path, component)

Command_new(program) == [program |-> program, args |-> <<>>, envs |-> {}]
arg(cmd, a) == [cmd EXCEPT !.args = Append(@, a)]
args(cmd, as) == [cmd EXCEPT !.args = @ \o as]

(***************************************************************************)
(* Command wrapper: SandboxWrapper.  The errors are Strings in the source; *)
(* an error here is the message's kind and the path it prints, if any.     *)
(***************************************************************************)
Error(kind) == [kind |-> kind, path |-> <<>>]
ErrorAt(kind, path) == [kind |-> kind, path |-> display(path)]

\* os is the machine the call runs on: [platform, cwd, home, tools, files]
SandboxWrapper_new(config, os) ==
    IF config.enabled /\ os.platform # "macos" THEN Err(Error("PlatformUnsupported"))
    ELSE IF os.cwd = None THEN Err(Error("CurrentDirFailed"))
    ELSE IF os.home = None THEN Err(Error("HomeDirFailed"))
    ELSE Ok([config |-> config, project_dir |-> unwrap(os.cwd), home_dir |-> unwrap(os.home)])

\* faulty variant: the shell's own arguments are left out
create_direct_command_NoShellArgs(shell_config, command) ==
    arg(Command_new(shell_config.executable), command)

create_direct_command(shell_config, command) ==
    arg(args(Command_new(shell_config.executable), shell_config.args), command)

\* faulty variant: the path is returned without the exists() check
get_seatbelt_profile_path_Unchecked(self, os) ==
    IF os.cwd = None THEN Err(Error("CurrentDirFailed"))
    ELSE Ok(push(push(push(push(push(push(unwrap(os.cwd),
                S_crates), S_goose_mcp), S_src), S_developer), S_profiles),
                profile_filename(self.config.profile)))

get_seatbelt_profile_path(self, os) ==
    IF os.cwd = None THEN Err(Error("CurrentDirFailed"))
    ELSE LET profile_path ==
                 push(push(push(push(push(push(unwrap(os.cwd),
                     S_crates), S_goose_mcp), S_src), S_developer), S_profiles),
                     profile_filename(self.config.profile))
         IN IF profile_path \notin os.files
            THEN Err(ErrorAt("ProfileAssetMissing", profile_path))
            ELSE Ok(profile_path)

create_seatbelt_command(self, os, shell_config, command) ==
    IF os.platform # "macos" THEN Err(Error("PlatformUnsupported"))
    ELSE IF S_sandbox_exec \notin os.tools THEN Err(Error("ToolNotFound"))
    ELSE LET profile_path == get_seatbelt_profile_path(self, os) IN
         IF ~profile_path.ok THEN profile_path
         ELSE LET c0 == Command_new(S_sandbox_exec)
                  c1 == arg(c0, S_dash_f)
                  c2 == arg(c1, display(profile_path.val))
                  c3 == arg(c2, S_dash_D)
                  c4 == arg(c3, S_project_dir_eq \o display(self.project_dir))
                  c5 == arg(c4, S_dash_D)
                  c6 == arg(c5, S_home_dir_eq \o display(self.home_dir))
                  c7 == arg(c6, shell_config.executable)
                  c8 == args(c7, shell_config.args)
              IN Ok(arg(c8, command))

\* faulty variant: an unimplemented backend falls back to the direct command
wrap_command_StubRunsDirect(self, os, shell_config, command) ==
    IF self.config.method = "Seatbelt" /\ self.config.enabled
    THEN create_seatbelt_command(self, os, shell_config, command)
    ELSE Ok(create_direct_command(shell_config, command))

wrap_command(self, os, shell_config, command) ==
    IF ~self.config.enabled \/ self.config.method = "None"
    THEN Ok(create_direct_command(shell_config, command))
    ELSE CASE self.config.method = "Seatbelt" ->
                  create_seatbelt_command(self, os, shell_config, command)
           [] self.config.method = "None" ->
                  Ok(create_direct_command(shell_config, command))
           [] self.config.method = "Docker" -> Err(Error("DockerNotImplemented"))
           [] self.config.method = "Podman" -> Err(Error("PodmanNotImplemented"))

(***************************************************************************)
(* Process launcher (self-reexec): maybe_enter_sandbox.                    *)
(***************************************************************************)
starts_with(s, c) == Len(s) > 0 /\ s[1] = c

remove(v, i) == [k \in 1..(Len(v) - 1) |-> IF k < i THEN v[k] ELSE v[k + 1]]

\* faulty variant: the index also advances after a removal
RECURSIVE filter_from_Advances(_, _)
filter_from_Advances(v, i) ==
    IF ~(i <= Len(v)) THEN v
    ELSE LET is_flag == v[i] = S_dash_s \/ v[i] = S_dd_sandbox IN
         IF is_flag
         THEN LET v1 == remove(v, i)
                  v2 == IF i <= Len(v1) /\ ~starts_with(v1[i], "-")
                        THEN remove(v1, i) ELSE v1
              IN filter_from_Advances(v2, i + 1)
         ELSE filter_from_Advances(v, i + 1)

\* the scan of lines 53-62; i is the 1-based position of the source's index i
RECURSIVE filter_from(_, _)
filter_from(v, i) ==
    IF ~(i <= Len(v)) THEN v
    ELSE LET is_flag == v[i] = S_dash_s \/ v[i] = S_dd_sandbox IN
         IF is_flag
         THEN LET v1 == remove(v, i)
                  v2 == IF i <= Len(v1) /\ ~starts_with(v1[i], "-")
                        THEN remove(v1, i) ELSE v1
              IN filter_from(v2, i)
         ELSE filter_from(v, i + 1)

filter_args(v) == filter_from(v, 1)

unwrap_or_default(r) == IF r.ok THEN r.val ELSE <<>>

unwrap_or(o, d) == IF o = None THEN d ELSE unwrap(o)

\* faulty variant: a child without an exit code is reported as success
exit_code_Success(code) == unwrap_or(code, 0)

\* status.code().unwrap_or(1), the argument of std::process::exit (line 101)
exit_code(code) == unwrap_or(code, 1)

\* format! of lines 67-72 and 76-81
inline_permissive_open(dir, e) ==
    S_open_head
    \o S_allow_write_open \o display(dir) \o S_allow_write_close
    \o S_allow_write_open \o (unwrap_or_default(env_var(e, "HOME")) \o S_state_suffix) \o S_allow_write_close
    \o S_allow_write_open \o (unwrap_or_default(env_var(e, "HOME")) \o S_share_suffix) \o S_allow_write_close

inline_permissive_closed(dir, e) ==
    S_closed_head
    \o S_allow_write_open \o display(dir) \o S_allow_write_close
    \o S_allow_write_open \o (unwrap_or_default(env_var(e, "HOME")) \o S_state_suffix) \o S_allow_write_close
    \o S_allow_write_open \o (unwrap_or_default(env_var(e, "HOME")) \o S_share_suffix) \o S_allow_write_close
    \o S_closed_tail

\* faulty variant: the child is spawned without the variable
env_set_Dropped(cmd, name, value) == cmd

env_set(cmd, name, value) == [cmd EXCEPT !.envs = {p \in @ : p[1] # name} \cup {<<name, value>>}]

\* what a call of the launcher does: it returns Ok or Err to its caller, or it
\* has spawned cmd and waits for it, to exit with its status
Returned(res) == [kind |-> "returned", res |-> res, cmd |-> None]
Spawned(cmd) == [kind |-> "spawned", res |-> Ok(<<>>), cmd |-> Some(cmd)]
\* the call has not been made yet
Pending == [kind |-> "pending", res |-> Ok(<<>>), cmd |-> None]

\* #[cfg(target_os = "macos")] (lines 46-102), up to the spawn
enter_seatbelt_sandbox_macos(e, argv, os) ==
    LET pe == env_var(e, "SEATBELT_PROFILE")
        profile_env == IF pe.ok THEN pe.val ELSE S_permissive_open
        filtered == filter_args(argv)
    IN IF os.exe = None THEN Returned(Err(Error("CurrentExeFailed")))
       ELSE IF profile_env \in {S_permissive_open, S_permissive_closed} /\ os.cwd = None
       THEN Returned(Err(Error("CurrentDirFailed")))
       ELSE LET flag == IF profile_env \in {S_permissive_open, S_permissive_closed}
                        THEN S_dash_p ELSE S_dash_n
                profile_arg ==
                    IF profile_env = S_permissive_open
                    THEN inline_permissive_open(unwrap(os.cwd), e)
                    ELSE IF profile_env = S_permissive_closed
                    THEN inline_permissive_closed(unwrap(os.cwd), e)
                    ELSE profile_env
                c0 == Command_new(S_sandbox_exec)
                c1 == arg(arg(c0, flag), profile_arg)
                c2 == arg(c1, display(unwrap(os.exe)))
                c3 == args(c2, filtered)
                c4 == env_set(c3, "GOOSE_SANDBOX_ACTIVE", S_1)
            IN IF S_sandbox_exec \notin os.tools
               THEN Returned(Err(Error("SpawnFailed")))
               ELSE Spawned(c4)

\* faulty variant: the platform without Seatbelt refuses to start
enter_seatbelt_sandbox_other_Fails == Returned(Err(Error("PlatformUnsupported")))

\* #[cfg(not(target_os = "macos"))] (lines 104-108)
enter_seatbelt_sandbox_other == Returned(Ok(<<>>))

enter_seatbelt_sandbox(e, argv, os) ==
    IF os.platform = "macos" THEN enter_seatbelt_sandbox_macos(e, argv, os)
    ELSE enter_seatbelt_sandbox_other

\* the sentinel check of lines 16-18
already_sandboxed(e) == env_var(e, "GOOSE_SANDBOX_ACTIVE").ok

\* method_flag.or_else(|| env::var("GOOSE_SANDBOX").ok()).unwrap_or_default()
requested_method(method_flag, e) ==
    IF method_flag # None THEN unwrap(method_flag)
    ELSE unwrap_or_default(env_var(e, "GOOSE_SANDBOX"))

maybe_enter_sandbox(method_flag, e, argv, os) ==
    IF already_sandboxed(e) THEN Returned(Ok(<<>>))
    ELSE LET method == requested_method(method_flag, e) IN
         IF method = <<>> THEN Returned(Ok(<<>>))
         ELSE IF method \in {S_seatbelt, S_sandbox_exec, S_true, S_1}
              THEN enter_seatbelt_sandbox(e, argv, os)
         ELSE IF method \in {S_docker, S_podman} THEN Returned(Ok(<<>>))
         ELSE Returned(Ok(<<>>))

(***************************************************************************)
(* State.                                                                  *)
(*   os       the machine: platform (cfg!(target_os)), cwd                 *)
(*            (env::current_dir, None when it fails), home                 *)
(*            (dirs::home_dir), tools (the programs found on PATH), files  *)
(*            (the paths that exist), exe (env::current_exe)               *)
(*   env      the environment of the process that resolves the policy      *)
(*   config   the policy last resolved, SandboxConfig::default() before    *)
(*   call     the arguments of the last parse_sandbox_config call          *)
(*   wrapper  the SandboxWrapper constructed, if any                       *)
(*   last     the last SandboxWrapper call and what it returned            *)
(*   procs    the chain of launched processes, the first one first         *)
(***************************************************************************)
VARIABLES os, env, config, call, wrapper, last, procs

vars == <<os, env, config, call, wrapper, last, procs>>

\* the longest chain of processes the model follows
MaxProcs == 3

Dir_work == <<S_work>>
Dir_other == <<S_other>>
Dir_home_u == <<S_home, S_u>>
Exe_goose == <<S_usr, S_bin, S_goose>>

profiles_dir(dir) == dir \o <<S_crates, S_goose_mcp, S_src, S_developer, S_profiles>>

\* the profile assets that may exist on disk, all below /work
AssetPaths ==
    {push(profiles_dir(Dir_work), f) :
        f \in {S_permissive_open_sb, S_restrictive_open_sb, S_restrictive_closed_sb}}

NoEnv ==
    [GOOSE_SANDBOX_ACTIVE |-> EnvUnset, GOOSE_SANDBOX |-> EnvUnset,
     SEATBELT_PROFILE |-> EnvUnset, HOME |-> EnvUnset]

DefaultOs ==
    [platform |-> "macos", cwd |-> Some(Dir_work), home |-> Some(Dir_home_u),
     tools |-> {S_sandbox_exec}, files |-> {}, exe |-> Some(Exe_goose)]

NoCall == [made |-> FALSE, sandbox_arg |-> None, profile_arg |-> None]

ShellConfigs ==
    {[executable |-> S_bash, args |-> <<S_dash_c>>],
     [executable |-> S_cmd, args |-> <<S_slash_C, S_dash_c>>]}
Commands == {S_ls, S_echo_hi}

NoLast ==
    [op |-> "none", config |-> SandboxConfig_default,
     shell_config |-> [executable |-> <<>>, args |-> <<>>], command |-> <<>>,
     res |-> Ok(<<>>)]

(***************************************************************************)
(* The policy resolver as a state machine: the process reads its           *)
(* environment and is given the CLI values.                                *)
(***************************************************************************)
EnvSandboxValues ==
    {EnvUnset, EnvNotUnicode} \cup
    {EnvStr(s) : s \in {S_empty, S_none, S_false, S_seatbelt, S_sandbox_exec, S_docker,
                        S_podman, S_true, S_1, S_TRUE, S_True, S_SeatBelt, S_bogus}}
EnvProfileValues ==
    {EnvUnset} \cup
    {EnvStr(s) : s \in {S_permissive_open, S_permissive_closed_u, S_RestrictiveOpen,
                        S_Restrictive_Closed, S_invalid}}
CliSandboxValues ==
    {None, Some(None)} \cup
    {Some(Some(s)) : s \in {S_empty, S_none, S_disabled, S_seatbelt, S_docker, S_podman,
                            S_true, S_1, S_Docker, S_bogus}}
CliProfileValues ==
    {None} \cup
    {Some(s) : s \in {S_permissive_closed, S_restrictive_open_u, S_restrictiveclosed,
                      S_PERMISSIVE_CLOSED, S_invalid}}

InitResolver ==
    /\ os \in {[DefaultOs EXCEPT !.platform = p] : p \in Platforms}
    /\ env \in {[NoEnv EXCEPT !.GOOSE_SANDBOX = s, !.SEATBELT_PROFILE = p] :
                   s \in EnvSandboxValues, p \in EnvProfileValues}
    /\ config = SandboxConfig_default
    /\ call = NoCall
    /\ wrapper = None
    /\ last = NoLast
    /\ procs = <<>>

ParseSandboxConfig(sandbox_arg, profile_arg) ==
    /\ config' = parse_sandbox_config(env, os.platform, sandbox_arg, profile_arg)
    /\ call' = [made |-> TRUE, sandbox_arg |-> sandbox_arg, profile_arg |-> profile_arg]
    /\ UNCHANGED <<os, env, wrapper, last, procs>>

ParseSandboxConfigFromEnv == ParseSandboxConfig(None, None)

NextResolver ==
    \/ \E sandbox_arg \in CliSandboxValues, profile_arg \in CliProfileValues :
           ParseSandboxConfig(sandbox_arg, profile_arg)
    \/ ParseSandboxConfigFromEnv

SpecResolver == InitResolver /\ [][NextResolver]_vars

(***************************************************************************)
(* The command wrapper as a state machine: a SandboxWrapper is constructed *)
(* from a SandboxConfig (a public struct: any field values) and then wraps *)
(* commands.                                                               *)
(***************************************************************************)
InitWrapper ==
    /\ os \in [platform : Platforms, cwd : {None, Some(Dir_work), Some(Dir_other)},
               home : {None, Some(Dir_home_u)}, tools : SUBSET {S_sandbox_exec},
               files : SUBSET AssetPaths, exe : {Some(Exe_goose)}]
    /\ env = NoEnv
    /\ config = SandboxConfig_default
    /\ call = NoCall
    /\ wrapper = None
    /\ last = NoLast
    /\ procs = <<>>

New(cfg) ==
    LET r == SandboxWrapper_new(cfg, os) IN
    /\ wrapper' = IF r.ok THEN Some(r.val) ELSE wrapper
    /\ last' = [NoLast EXCEPT !.op = "new", !.config = cfg, !.res = r]
    /\ UNCHANGED <<os, env, config, call, procs>>

WrapCommand(shell_config, command) ==
    /\ wrapper # None
    /\ last' = [op |-> "wrap_command", config |-> unwrap(wrapper).config,
                shell_config |-> shell_config, command |-> command,
                res |-> wrap_command(unwrap(wrapper), os, shell_config, command)]
    /\ UNCHANGED <<os, env, config, call, wrapper, procs>>

NextWrapper ==
    \/ \E cfg \in SandboxConfig : New(cfg)
    \/ \E shell_config \in ShellConfigs, command \in Commands :
           WrapCommand(shell_config, command)

SpecWrapper == InitWrapper /\ [][NextWrapper]_vars

(***************************************************************************)
(* The process launcher as a state machine.  procs[1] is the process the   *)
(* user starts; procs[i + 1] is the process procs[i] spawned.  A process   *)
(* is at "start" (main has not called maybe_enter_sandbox yet), "waiting"  *)
(* (blocked in Command::status), "running" (the call returned Ok and the   *)
(* host program runs), "failed" (the call returned Err) or "exited".       *)
(***************************************************************************)
Machines ==
    {DefaultOs,
     [DefaultOs EXCEPT !.exe = None],
     [DefaultOs EXCEPT !.cwd = None],
     [DefaultOs EXCEPT !.cwd = Some(Dir_other)],
     [DefaultOs EXCEPT !.tools = {}],
     [DefaultOs EXCEPT !.platform = "linux"]}

SentinelValues == {EnvUnset, EnvStr(S_1), EnvStr(S_empty), EnvNotUnicode}
LauncherSandboxValues ==
    {EnvUnset, EnvNotUnicode} \cup
    {EnvStr(s) : s \in {S_empty, S_seatbelt, S_true, S_1, S_docker, S_bogus}}
LauncherProfileValues ==
    {EnvUnset, EnvStr(S_permissive_closed), EnvStr(S_restrictive_open)}
HomeValues == {EnvUnset, EnvStr(S_home_u), EnvStr(S_home_quoted)}
MethodFlags == {None, Some(S_empty), Some(S_sandbox_exec), Some(S_podman), Some(S_bogus)}
ArgVectors ==
    {<<S_dash_s, S_seatbelt, S_dd_debug>>, <<S_session, S_dd_sandbox_eq_seatbelt>>}
\* Option<i32> of ExitStatus::code: None when a signal ended the process
ExitStatuses == {None, Some(0), Some(1), Some(3)}

Process(e, method_flag, argv) ==
    [env |-> e, method_flag |-> method_flag, argv |-> argv, pc |-> "start",
     ret |-> Pending, status |-> None]

InitLauncher ==
    /\ os \in Machines
    /\ env = NoEnv
    /\ config = SandboxConfig_default
    /\ call = NoCall
    /\ wrapper = None
    /\ last = NoLast
    /\ \E a \in SentinelValues, s \in LauncherSandboxValues, p \in LauncherProfileValues,
          h \in HomeValues, method_flag \in MethodFlags, argv \in ArgVectors :
           procs = <<Process([GOOSE_SANDBOX_ACTIVE |-> a, GOOSE_SANDBOX |-> s,
                              SEATBELT_PROFILE |-> p, HOME |-> h], method_flag, argv)>>

\* the environment a spawned command runs in: the parent's, with cmd.envs set
child_env(e, cmd) ==
    [name \in DOMAIN e |->
        IF \E p \in cmd.envs : p[1] = name
        THEN EnvStr((CHOOSE p \in cmd.envs : p[1] = name)[2])
        ELSE e[name]]

\* sandbox-exec <flag> <profile> <exe> <args...> runs exe with args
child_argv(cmd) == SubSeq(cmd.args, 4, Len(cmd.args))

\* main calls maybe_enter_sandbox; child_flag is the method the child's own
\* CLI parse will hand to its call
MaybeEnterSandbox(i, child_flag) ==
    /\ i \in DOMAIN procs
    /\ procs[i].pc = "start"
    /\ LET p == procs[i]
           r == maybe_enter_sandbox(p.method_flag, p.env, p.argv, os)
       IN IF r.kind = "spawned"
          THEN /\ Len(procs) < MaxProcs
               /\ procs' = Append([procs EXCEPT ![i].pc = "waiting", ![i].ret = r],
                                  Process(child_env(p.env, unwrap(r.cmd)), child_flag,
                                          child_argv(unwrap(r.cmd))))
          ELSE procs' = [procs EXCEPT ![i].pc = IF r.res.ok THEN "running" ELSE "failed",
                                      ![i].ret = r]
    /\ UNCHANGED <<os, env, config, call, wrapper, last>>

\* a process that is not waiting for a child ends, with or without an exit code
Exit(i, status) ==
    /\ i \in DOMAIN procs
    /\ procs[i].pc \in {"start", "running", "failed"}
    /\ procs' = [procs EXCEPT ![i].pc = "exited", ![i].status = status]
    /\ UNCHANGED <<os, env, config, call, wrapper, last>>

\* status() returns and the parent exits: lines 94-101
ExitWithChildStatus(i) ==
    /\ i \in DOMAIN procs
    /\ i + 1 \in DOMAIN procs
    /\ procs[i].pc = "waiting"
    /\ procs[i + 1].pc = "exited"
    /\ procs' = [procs EXCEPT ![i].pc = "exited",
                              ![i].status = Some(exit_code(procs[i + 1].status))]
    /\ UNCHANGED <<os, env, config, call, wrapper, last>>

NextLauncher ==
    \/ \E i \in 1..MaxProcs, child_flag \in MethodFlags : MaybeEnterSandbox(i, child_flag)
    \/ \E i \in 1..MaxProcs, status \in ExitStatuses : Exit(i, status)
    \/ \E i \in 1..MaxProcs : ExitWithChildStatus(i)

SpecLauncher == InitLauncher /\ [][NextLauncher]_vars

(***************************************************************************)
(* Properties of the process launcher, under SpecLauncher.                 *)
(***************************************************************************)
SentinelSet(p) == p.env.GOOSE_SANDBOX_ACTIVE.state # "unset"
SeatbeltRequests == {S_seatbelt, S_sandbox_exec, S_true, S_1}
ReturnedOk(p) == p.ret.kind = "returned" /\ p.ret.res.ok /\ p.ret.cmd = None

\* C1: in any chain of launches there are at most two processes (the
\* sandboxing tool is spawned at most once): every spawned process has
\* GOOSE_SANDBOX_ACTIVE set, and its own call of maybe_enter_sandbox, once
\* made, has returned Ok without spawning, whatever its CLI flag and its
\* GOOSE_SANDBOX request.
C1_SpawnedAtMostOnce ==
    /\ Len(procs) <= 2
    /\ Cardinality({i \in DOMAIN procs : procs[i].ret.kind = "spawned"}) <= 1
    /\ \A i \in DOMAIN procs :
           i > 1 => /\ procs[i].env.GOOSE_SANDBOX_ACTIVE = EnvStr(S_1)
                    /\ procs[i].ret.kind # "spawned"
                    /\ procs[i].ret.kind = "returned" => ReturnedOk(procs[i])

\* C1 witness: a process started without the sentinel has spawned a child
\* whose CLI flag still requests Seatbelt, and the child's call has returned.
C1_Witness ==
    /\ Len(procs) = 2
    /\ ~SentinelSet(procs[1])
    /\ procs[1].ret.kind = "spawned"
    /\ procs[2].method_flag = Some(S_sandbox_exec)
    /\ procs[2].pc = "running"

\* C9: a process whose GOOSE_SANDBOX_ACTIVE is set to any value gets Ok from
\* maybe_enter_sandbox, which has spawned nothing and has not ended the
\* process, whatever the method requested.
C9_SentinelNoOp ==
    \A i \in DOMAIN procs :
        (SentinelSet(procs[i]) /\ procs[i].ret.kind # "pending")
            => (ReturnedOk(procs[i]) /\ Len(procs) = i)

Wrapped == last.op = "wrap_command"
DirectCommand ==
    [program |-> last.shell_config.executable,
     args |-> last.shell_config.args \o <<last.command>>, envs |-> {}]
\* <cwd>/crates/goose-mcp/src/developer/profiles/<kebab-case-name>.sb
ExpectedAssetPath == push(profiles_dir(unwrap(os.cwd)), profile_filename(last.config.profile))
SeatbeltSelves ==
    {[config |-> c, project_dir |-> Dir_work, home_dir |-> Dir_home_u] :
        c \in {c \in SandboxConfig : c.enabled /\ c.method = "Seatbelt"}}

\* C2: with the policy enabled and method Seatbelt, wrap_command returns an
\* error or a command whose program is sandbox-exec, never the direct
\* command; it returns an error when the platform is not macOS, when
\* sandbox-exec is not found and when the profile asset does not exist, and
\* in the last case the error names the expected asset path.
C2_SeatbeltWrapsOrFails ==
    /\ (Wrapped /\ last.config.enabled /\ last.config.method = "Seatbelt") =>
           /\ last.res.ok => /\ last.res.val.program = S_sandbox_exec
                             /\ last.res.val # DirectCommand
           /\ os.platform # "macos" => ~last.res.ok
           /\ S_sandbox_exec \notin os.tools => ~last.res.ok
           /\ (os.cwd # None /\ ExpectedAssetPath \notin os.files) =>
                  /\ ~last.res.ok
                  /\ (os.platform = "macos" /\ S_sandbox_exec \in os.tools) =>
                         last.res.val = [kind |-> "ProfileAssetMissing",
                                         path |-> display(ExpectedAssetPath)]
    /\ \A self \in SeatbeltSelves, sc \in ShellConfigs, c \in Commands :
           os.platform # "macos" => ~wrap_command(self, os, sc, c).ok

\* C2 witness: an enabled Seatbelt policy with profile RestrictiveClosed was
\* asked to wrap a command where sandbox-exec is found and the asset is
\* absent, and the call failed.
C2_Witness ==
    /\ Wrapped
    /\ last.config = [enabled |-> TRUE, method |-> "Seatbelt", profile |-> "RestrictiveClosed"]
    /\ S_sandbox_exec \in os.tools
    /\ os.cwd = Some(Dir_other)
    /\ ~last.res.ok
    /\ last.res.val.kind = "ProfileAssetMissing"

\* C3 as stated: with method Docker or Podman wrap_command fails with the
\* not-implemented error, whatever the other policy fields.
C3_StubAlwaysFails ==
    (Wrapped /\ last.config.method \in {"Docker", "Podman"}) =>
        /\ ~last.res.ok
        /\ last.res.val.kind \in {"DockerNotImplemented", "PodmanNotImplemented"}

\* C3 amended: with the policy enabled and method Docker or Podman,
\* wrap_command fails with that backend's not-implemented error, whatever the
\* profile, the shell config and the command.
C3_EnabledStubFails ==
    (Wrapped /\ last.config.enabled /\ last.config.method \in {"Docker", "Podman"}) =>
        /\ ~last.res.ok
        /\ last.res.val = Error(IF last.config.method = "Docker"
                                THEN "DockerNotImplemented" ELSE "PodmanNotImplemented")

\* C3 witness: an enabled Podman policy was asked to wrap a command.
C3_Witness ==
    /\ Wrapped
    /\ last.config = [enabled |-> TRUE, method |-> "Podman", profile |-> "RestrictiveOpen"]
    /\ ~last.res.ok

\* C4: with enabled = false (whatever the method) or method None (whatever
\* enabled), wrap_command returns Ok with the shell's executable as program
\* and the shell's arguments followed by the command string as arguments.
C4_DisabledIsDirect ==
    (Wrapped /\ (~last.config.enabled \/ last.config.method = "None")) =>
        /\ last.res.ok
        /\ last.res.val.program = last.shell_config.executable
        /\ last.res.val.args = last.shell_config.args \o <<last.command>>
        /\ last.res.val = DirectCommand

\* C4 witness: a disabled policy whose method is Seatbelt wrapped a command
\* for a shell with two arguments of its own.
C4_Witness ==
    /\ Wrapped
    /\ ~last.config.enabled
    /\ last.config.method = "Seatbelt"
    /\ Len(last.shell_config.args) = 2
    /\ last.res.ok

(***************************************************************************)
(* Properties of the policy resolver, under SpecResolver.                  *)
(***************************************************************************)
\* what the CLI values alone resolve to: the same call in a process whose
\* environment sets neither GOOSE_SANDBOX nor SEATBELT_PROFILE
CliAlone == parse_sandbox_config(NoEnv, os.platform, call.sandbox_arg, call.profile_arg)
\* what the environment alone resolves to
EnvAlone == parse_sandbox_config(env, os.platform, None, None)
PlatformDefault ==
    IF os.platform = "macos" THEN [enabled |-> TRUE, method |-> "Seatbelt"]
    ELSE [enabled |-> FALSE, method |-> "None"]
KnownMethodStrings ==
    {S_none, S_false, S_disabled, S_seatbelt, S_sandbox_exec, S_docker, S_podman}
KnownProfileStrings ==
    {S_permissive_open_u, S_permissiveopen, S_permissive_closed_u, S_permissiveclosed,
     S_restrictive_open_u, S_restrictiveopen, S_restrictive_closed_u, S_restrictiveclosed}
CliMethodKnown ==
    \/ call.sandbox_arg = Some(None)
    \/ /\ call.sandbox_arg # None
       /\ to_lowercase(unwrap(unwrap(call.sandbox_arg))) \in KnownMethodStrings
CliProfileKnown ==
    /\ call.profile_arg # None
    /\ replace(to_lowercase(unwrap(call.profile_arg)), "-", "_") \in KnownProfileStrings

\* C5 as stated: whenever a CLI method value is given, the resolved method
\* and enabled are those of the CLI value whatever GOOSE_SANDBOX says, and
\* whenever a CLI profile value is given, the resolved profile is that of the
\* CLI value whatever SEATBELT_PROFILE says.
C5_CliAlwaysWins ==
    call.made =>
        /\ call.sandbox_arg # None =>
               (config.method = CliAlone.method /\ config.enabled = CliAlone.enabled)
        /\ call.profile_arg # None => config.profile = CliAlone.profile

\* C5 amended: a CLI method value that is the bare flag or parses as a known
\* method name decides method and enabled whatever GOOSE_SANDBOX says, and a
\* CLI profile value that parses as a known profile name decides the profile
\* whatever SEATBELT_PROFILE says; a CLI string that does not parse is
\* ignored and the value resolved from the environment is kept.
C5_ParseableCliWins ==
    call.made =>
        /\ CliMethodKnown =>
               (config.method = CliAlone.method /\ config.enabled = CliAlone.enabled)
        /\ call.sandbox_arg = Some(None) =>
               (config.method = PlatformDefault.method /\ config.enabled = PlatformDefault.enabled)
        /\ (call.sandbox_arg # None /\ ~CliMethodKnown) =>
               (config.method = EnvAlone.method /\ config.enabled = EnvAlone.enabled)
        /\ CliProfileKnown => config.profile = CliAlone.profile
        /\ (call.profile_arg # None /\ ~CliProfileKnown) => config.profile = EnvAlone.profile

\* C5 witness: GOOSE_SANDBOX=seatbelt and SEATBELT_PROFILE=Restrictive-Closed
\* met --sandbox=docker and the CLI profile PERMISSIVE_CLOSED.
C5_Witness ==
    /\ call.made
    /\ env.GOOSE_SANDBOX = EnvStr(S_seatbelt)
    /\ env.SEATBELT_PROFILE = EnvStr(S_Restrictive_Closed)
    /\ call.sandbox_arg = Some(Some(S_docker))
    /\ call.profile_arg = Some(S_PERMISSIVE_CLOSED)
    /\ config = [enabled |-> TRUE, method |-> "Docker", profile |-> "PermissiveClosed"]

\* C6: every resolved policy, and the default policy before any resolution,
\* has enabled = false whenever its method is None.
C6_NoneIsDisabled == config.method = "None" => ~config.enabled

\* C6 witness: the bare sandbox flag on a platform other than macOS overrode
\* GOOSE_SANDBOX=docker, and the resolved method is None.
C6_Witness ==
    /\ call.made
    /\ os.platform # "macos"
    /\ env.GOOSE_SANDBOX = EnvStr(S_docker)
    /\ call.sandbox_arg = Some(None)
    /\ config.method = "None"

C8_TrueAndOneAtBothConsumers ==
    (/\ call.made
     /\ call.sandbox_arg = None
     /\ os.platform = "macos"
     /\ env.GOOSE_SANDBOX \in {EnvStr(S_true), EnvStr(S_1)})
        => /\ config.enabled
           /\ config.method = "Seatbelt"
           /\ maybe_enter_sandbox(None, env, <<>>, os) = enter_seatbelt_sandbox(env, <<>>, os)
           /\ maybe_enter_sandbox(None, env, <<>>, os).kind = "spawned"

\* C11: a call that has spawned the sandboxing tool never returns to its
\* caller: the process stays blocked until it exits, it has exited only if
\* its child has exited, and its exit code is then the child's exit code, or
\* 1 when the child has none.
C11_ExitsWithChildStatus ==
    \A i \in DOMAIN procs :
        procs[i].ret.kind = "spawned" =>
            /\ procs[i].pc \in {"waiting", "exited"}
            /\ i + 1 \in DOMAIN procs
            /\ procs[i].pc = "exited" =>
                   /\ procs[i + 1].pc = "exited"
                   /\ procs[i].status =
                          IF procs[i + 1].status = None THEN Some(1) ELSE procs[i + 1].status

\* C11 witness: the child ended without an exit code after its host program
\* had run, and the parent has exited.
C11_Witness ==
    /\ Len(procs) = 2
    /\ procs[1].ret.kind = "spawned"
    /\ procs[1].pc = "exited"
    /\ procs[2].ret.kind = "returned"
    /\ procs[2].status = None

(***************************************************************************)
(* Properties of the inline policy text, under SpecLauncher.               *)
(***************************************************************************)
\* the positions at which pattern occurs in text
Positions(text, pattern) ==
    {k \in 1..(Len(text) + 1 - Len(pattern)) :
        SubSeq(text, k, k + Len(pattern) - 1) = pattern}

\* a file-write allow clause that is a subpath permission on dir
AllowSubpath(dir) == S_allow_write_open \o dir \o S_subpath_close

\* the process spawned sandbox-exec with the inline PermissiveOpen policy
SpawnedPermissiveOpen(p) ==
    /\ p.ret.kind = "spawned"
    /\ \/ p.env.SEATBELT_PROFILE.state # "unicode"
       \/ p.env.SEATBELT_PROFILE = EnvStr(S_permissive_open)

\* what C12 says of the policy text generated for working directory dir and
\* home directory home
ThreeScopedAllows(text, dir, home) ==
    /\ Cardinality(Positions(text, S_deny_write)) = 1
    /\ Cardinality(Positions(text, S_allow_write)) = 3
    /\ \A d \in {dir, home \o S_state_suffix, home \o S_share_suffix} :
           Positions(text, AllowSubpath(d)) # {}
    /\ \A d \in Positions(text, S_deny_write), a \in Positions(text, S_allow_write) : d < a

\* C12: for profile PermissiveOpen and every working directory D and home
\* directory H, the inline policy text handed to sandbox-exec contains exactly
\* one universal file-write deny clause and exactly three file-write allow
\* clauses, subpath permissions on D, H/.local/state/goose and
\* H/.local/share/goose, and the deny clause precedes the allow clauses.
C12_ThreeScopedWriteAllows ==
    \A i \in DOMAIN procs :
        SpawnedPermissiveOpen(procs[i]) =>
            LET cmd == unwrap(procs[i].ret.cmd) IN
            /\ cmd.args[1] = S_dash_p
            /\ ThreeScopedAllows(cmd.args[2], display(unwrap(os.cwd)),
                                 unwrap_or_default(env_var(procs[i].env, "HOME")))

\* C12 for a home directory whose name holds no double quote: the same
\* statement, for every working directory of the model and HOME unset or
\* /home/u.
C12_HoldsWithoutQuote ==
    \A i \in DOMAIN procs :
        (SpawnedPermissiveOpen(procs[i]) /\ procs[i].env.HOME # EnvStr(S_home_quoted)) =>
            LET cmd == unwrap(procs[i].ret.cmd) IN
            /\ cmd.args[1] = S_dash_p
            /\ ThreeScopedAllows(cmd.args[2], display(unwrap(os.cwd)),
                                 unwrap_or_default(env_var(procs[i].env, "HOME")))

(***************************************************************************)
(* The argument filter as a state machine: the launcher of SpecLauncher,   *)
(* started on macOS without the sentinel and with GOOSE_SANDBOX=seatbelt,  *)
(* on every argument vector of at most MaxArgs elements.  The filtered     *)
(* vector is the argument vector of the spawned process.                   *)
(***************************************************************************)
\* the longest argument vector (argv without argv[0]) the model draws
MaxArgs == 3

ArgTokens ==
    {S_dash_s, S_dd_sandbox, S_dd_sandbox_eq_seatbelt, S_dd_debug, S_seatbelt, S_session}

AllArgVectors == UNION {[1..n -> ArgTokens] : n \in 0..MaxArgs}

FilterEnv ==
    [GOOSE_SANDBOX_ACTIVE |-> EnvUnset, GOOSE_SANDBOX |-> EnvStr(S_seatbelt),
     SEATBELT_PROFILE |-> EnvStr(S_restrictive_open), HOME |-> EnvStr(S_home_u)]

InitFilter ==
    /\ os = DefaultOs
    /\ env = NoEnv
    /\ config = SandboxConfig_default
    /\ call = NoCall
    /\ wrapper = None
    /\ last = NoLast
    /\ \E argv \in AllArgVectors : procs = <<Process(FilterEnv, None, argv)>>

SpecFilter == InitFilter /\ [][NextLauncher]_vars

(***************************************************************************)
(* Properties of the argument filter, under SpecFilter.                    *)
(***************************************************************************)
\* the process has filtered its arguments and spawned: procs[1].argv is the
\* input vector and procs[2].argv the filtered one
Filtered == Len(procs) >= 2 /\ procs[1].ret.kind = "spawned"

IsSandboxFlag(a) == a = S_dash_s \/ a = S_dd_sandbox
BeginsWithDash(a) == a # <<>> /\ Head(a) = "-"
HasPrefix(a, prefix) == Len(a) >= Len(prefix) /\ SubSeq(a, 1, Len(prefix)) = prefix
\* the flag alone, or the flag with its value attached by "="
IsSandboxSelection(a) ==
    IsSandboxFlag(a) \/ HasPrefix(a, S_dd_sandbox_eq) \/ HasPrefix(a, S_dash_s_eq)

\* the elements of v at the positions in keep, in their order in v
KeepSeq(v, keep) ==
    LET F[n \in 0..Len(v)] ==
            IF n = 0 THEN <<>>
            ELSE IF n \in keep THEN Append(F[n - 1], v[n]) ELSE F[n - 1]
    IN F[Len(v)]

Elements(v) == {v[k] : k \in DOMAIN v}
\* the positions of the values: the elements that follow the flag and do not
\* begin with a dash
ValuePositions(v) ==
    {k \in DOMAIN v : k > 1 /\ IsSandboxFlag(v[k - 1]) /\ ~BeginsWithDash(v[k])}
FlagPositions(v) == {k \in DOMAIN v : IsSandboxFlag(v[k])}

\* C13: when the vector contains -s or --sandbox followed by a value, the
\* filtered vector holds no flag and not that value: it is the input without
\* its flags and their values, and a value that occurs nowhere else in the
\* input does not occur in it; when the vector contains no flag, the
\* filtered vector is the input vector.
C13_FlagAndValueRemoved ==
    Filtered =>
        LET v == procs[1].argv
            f == procs[2].argv
        IN /\ ValuePositions(v) # {} =>
                  /\ \A k \in DOMAIN f : ~IsSandboxFlag(f[k])
                  /\ f = KeepSeq(v, DOMAIN v \ (FlagPositions(v) \cup ValuePositions(v)))
                  /\ \A k \in ValuePositions(v) :
                         (\A j \in DOMAIN v : v[j] = v[k] => j \in ValuePositions(v))
                             => v[k] \notin Elements(f)
           /\ FlagPositions(v) = {} => f = v

\* C13 witness: the vector session --sandbox seatbelt was filtered to
\* session.
C13_Witness ==
    /\ Filtered
    /\ procs[1].argv = <<S_session, S_dd_sandbox, S_seatbelt>>
    /\ procs[2].argv = <<S_session>>

\* C14: for every vector, no sandbox-selection flag remains in the filtered
\* vector, whether the flag came with or without an attached value; every
\* element that is not a sandbox-selection flag and begins with a dash is
\* kept, also right after the flag; the kept elements are in their original
\* order.
C14_NoSelectionFlagRemains ==
    Filtered =>
        LET v == procs[1].argv
            f == procs[2].argv
            unrelated(w) == {k \in DOMAIN w : BeginsWithDash(w[k]) /\ ~IsSandboxSelection(w[k])}
        IN /\ \A k \in DOMAIN f : ~IsSandboxSelection(f[k])
           /\ KeepSeq(f, unrelated(f)) = KeepSeq(v, unrelated(v))
           /\ \E keep \in SUBSET DOMAIN v : f = KeepSeq(v, keep)

\* C14 for the flag given as an element of its own: no -s and no --sandbox
\* remains, every other element that begins with a dash is kept, and the
\* kept elements are in their original order.
C14_HoldsForSeparateFlag ==
    Filtered =>
        LET v == procs[1].argv
            f == procs[2].argv
            other(w) == {k \in DOMAIN w : BeginsWithDash(w[k]) /\ ~IsSandboxFlag(w[k])}
        IN /\ \A k \in DOMAIN f : ~IsSandboxFlag(f[k])
           /\ KeepSeq(f, other(f)) = KeepSeq(v, other(v))
           /\ \E keep \in SUBSET DOMAIN v : f = KeepSeq(v, keep)

====
